---- MODULE Spec2Model ----
(***************************************************************************)
(* Reaction graph builder of bondnet (gated_reaction_network.py):          *)
(* mol_graph_to_rxn_graph and create_rxn_graph, on a batched heterogeneous *)
(* molecule graph whose node data lives on the graph object.               *)
(*                                                                         *)
(* A tensor is a sequence of rows, a row a sequence of FtDim integers.     *)
(* Python indices are 0-based: row i of a tensor t is t[i + 1].            *)
(***************************************************************************)
EXTENDS Integers, Sequences, FiniteSets, TLC

VARIABLES
    gdev,    \* device the caller's batched molecule graph lives on
    gdata,   \* node data of the caller's graph object: ntype -> (key -> tensor)
    calls,   \* one activation record of mol_graph_to_rxn_graph per call slot
    sp,      \* a stand-alone use of _split_batched_output and its rejoining
    net,     \* activation records of the model's methods, one per run
    drv      \* the training driver: its worker processes and the files written

vars == <<gdev, gdata, calls, sp, net, drv>>

\* ------------------------------------------------------------------ bounds
FtDim == 2      \* columns of every feature tensor
MaxRxns == 2    \* longest reaction list handed to the builder
MaxMols == 3    \* most graphs in a batch that is split on its own
MaxCount == 2   \* most bond nodes of one graph in such a batch

NTypes == {"atom", "bond", "global"}
Calls == {1, 2}
Devices == {"cpu", "cuda:0"}

\* ------------------------------------------------------- tensor primitives
RECURSIVE SumSeq(_)
SumSeq(s) == IF s = <<>> THEN 0 ELSE Head(s) + SumSeq(Tail(s))

\* tensor.new_zeros((n, shape[1]))
new_zeros(n) == [i \in 1..n |-> [j \in 1..FtDim |-> 0]]

\* torch.cat of a non-empty list of tensors along dim 0
RECURSIVE cat(_)
cat(ts) == IF ts = <<>> THEN <<>> ELSE Head(ts) \o cat(Tail(ts))

\* torch.split(value, sizes) needs the sizes to add up to the row count
split_ok(value, sizes) == SumSeq(sizes) = Len(value)

\* variant: every chunk is cut from the start of the value
split_fromstart(value, sizes) == [m \in 1..Len(sizes) |-> SubSeq(value, 1, sizes[m])]

RECURSIVE split(_, _)
split(value, sizes) ==
    IF sizes = <<>> THEN <<>>
    ELSE <<SubSeq(value, 1, Head(sizes))>>
         \o split(SubSeq(value, Head(sizes) + 1, Len(value)), Tail(sizes))

\* itertools.compress(data, selectors): stops at the shorter of the two
RECURSIVE compress(_, _)
compress(data, selectors) ==
    IF data = <<>> \/ selectors = <<>> THEN <<>>
    ELSE (IF Head(selectors) THEN <<Head(data)>> ELSE <<>>)
         \o compress(Tail(data), Tail(selectors))

\* tensor[list]: every index must address a row
index_ok(t, idx) == \A i \in 1..Len(idx) : idx[i] < Len(t)

index_select(t, idx) == [i \in 1..Len(idx) |-> t[idx[i] + 1]]

\* torch.sum(t, dim=0, keepdim=True)
RECURSIVE ColSum(_, _)
ColSum(t, j) == IF t = <<>> THEN 0 ELSE Head(t)[j] + ColSum(Tail(t), j)

\* variant: the first row stands for the pooled rows
sum_keepdim_first(t) == <<Head(t)>>

sum_keepdim(t) == <<[j \in 1..FtDim |-> ColSum(t, j)]>>

\* a - b with broadcasting along dim 0
broadcastable(a, b) == Len(a) = Len(b) \/ Len(a) = 1 \/ Len(b) = 1

sub(a, b) ==
    LET n == IF Len(a) = 1 THEN Len(b) ELSE Len(a)
    IN [i \in 1..n |->
          [j \in 1..FtDim |->
              a[IF Len(a) = 1 THEN 1 ELSE i][j] - b[IF Len(b) = 1 THEN 1 ELSE i][j]]]

\* --------------------------------------------------- the batched mol graph
\* Molecules of the batch, in batching order.  A single-atom molecule carries
\* one factitious bond node, so every molecule has at least one node per type.
Mols == << [atom |-> 3, bond |-> 2, global |-> 1],
           [atom |-> 2, bond |-> 1, global |-> 1],
           [atom |-> 2, bond |-> 1, global |-> 1],
           [atom |-> 1, bond |-> 1, global |-> 1],
           [atom |-> 1, bond |-> 1, global |-> 1] >>

batch_num_nodes(nt) == [m \in 1..Len(Mols) |-> Mols[m][nt]]

num_nodes(nt) == SumSeq(batch_num_nodes(nt))

\* --------------------------------------------------------------- the inputs
Seeds == {0, 1}

Off(nt) == CASE nt = "atom" -> 0 [] nt = "bond" -> 10 [] OTHER -> 20

\* Seed 0 gives same-shaped molecules identical rows (row l of any molecule),
\* the other seeds give every row of the batch its own value.
Val(s, nt, m, l, j) ==
    IF s = 0 THEN 2 * l + j + Off(nt) ELSE s * (4 * m * m + l * l) + j * l + Off(nt)

MolFt(s, nt, m) == [l \in 1..Mols[m][nt] |-> [j \in 1..FtDim |-> Val(s, nt, m, l, j)]]

FeatsOf(s) == [nt \in NTypes |-> cat([m \in 1..Len(Mols) |-> MolFt(s, nt, m)])]

\* a feature map whose bond tensor misses its last row
ShortFeats == [FeatsOf(1) EXCEPT !["bond"] = SubSeq(@, 1, Len(@) - 1)]

FeatMaps == {FeatsOf(s) : s \in Seeds} \cup {ShortFeats}

\* tuple(feats.keys()): the insertion order of the feature dict
KeyOrders == { <<"atom", "bond", "global">>, <<"global", "bond", "atom">> }

\* A reaction descriptor: the fields of bondnet.data.reaction_network.Reaction
\* that the builder reads.  Molecule indices and map entries are 0-based.
Rxn(rs, ps, bm, al, bl) ==
    [reactants |-> rs, products |-> ps, bond_mapping |-> bm,
     atom_mapping_as_list |-> al, bond_mapping_as_list |-> bl]

\* A-B-C -> A-B + C, the bond-free product last / first
RxnBreak == Rxn(<<0>>, <<1, 3>>, << <<0>>, <<>> >>, <<2, 0, 1>>, <<1, 0>>)
RxnBreakSwapped == Rxn(<<0>>, <<3, 1>>, << <<>>, <<0>> >>, <<1, 2, 0>>, <<0, 1>>)
\* A-B -> A + B: both products are single atoms
RxnAtoms == Rxn(<<1>>, <<3, 4>>, << <<>>, <<>> >>, <<1, 0>>, <<0>>)
\* A-B -> A-B with identity maps over the reactant's rows
RxnSame == Rxn(<<1>>, <<2>>, << <<0>> >>, <<0, 1>>, <<0>>)
\* the same, its bond map extended over the padded zero row
RxnSamePadded == Rxn(<<1>>, <<2>>, << <<0>> >>, <<0, 1>>, <<0, 1>>)
\* two reactants, no reactant
RxnTwoReactants == Rxn(<<1, 2>>, <<3, 4>>, << <<>>, <<>> >>, <<1, 0>>, <<0>>)
RxnNoReactant == Rxn(<<>>, <<3, 4>>, << <<>>, <<>> >>, <<1, 0>>, <<0>>)
\* an atom map shorter than the product atom rows
RxnShortAtomMap == Rxn(<<0>>, <<1, 3>>, << <<0>>, <<>> >>, <<0, 1>>, <<1, 0>>)
\* A-B-C -> A + B + B: two bonds of the reactant are in no product
RxnTwoBroken == Rxn(<<0>>, <<3, 4, 4>>, << <<>>, <<>>, <<>> >>, <<0, 1, 2>>, <<0>>)
\* an atom map with an entry past the last product row
RxnBadIndex == Rxn(<<1>>, <<3, 4>>, << <<>>, <<>> >>, <<0, 2>>, <<0>>)
\* a product with fewer atoms than the reactant
RxnLostAtom == Rxn(<<0>>, <<1>>, << <<0>> >>, <<0, 1>>, <<0, 1>>)

Reactions ==
    { RxnBreak, RxnBreakSwapped, RxnAtoms, RxnSame, RxnSamePadded, RxnTwoReactants,
      RxnNoReactant, RxnShortAtomMap, RxnTwoBroken, RxnBadIndex, RxnLostAtom }

RECURSIVE SeqsUpTo(_, _)
SeqsUpTo(S, n) ==
    IF n = 0 THEN {<<>>}
    ELSE LET shorter == SeqsUpTo(S, n - 1)
         IN shorter \cup {Append(q, x) : q \in {r \in shorter : Len(r) = n - 1}, x \in S}

ReactionLists == SeqsUpTo(Reactions, MaxRxns)

\* ------------------------------------------------------ activation records
EmptyMap == [x \in {} |-> 0]

NoCall ==
    [pc |-> "idle", feats |-> EmptyMap, ntypes |-> <<>>, reactions |-> <<>>,
     graph |-> "none", gcopy |-> EmptyMap, graphs |-> <<>>, i |-> 0, j |-> 0,
     fts |-> EmptyMap, reaction_graphs |-> <<>>, reaction_feats |-> <<>>,
     batched_graph |-> EmptyMap, batched_feats |-> EmptyMap, err |-> "none"]

\* the node data a call's local name `graph` refers to
GraphData(c) == IF calls[c].graph = "self" THEN gdata ELSE calls[c].gcopy

Fail(c, e) == calls' = [calls EXCEPT ![c].pc = "failed", ![c].err = e]

NoSplit == [pc |-> "idle", nbonds |-> <<>>, value |-> <<>>, chunks |-> <<>>, joined |-> <<>>]

\* a run of forward, feature_before_fc or feature_at_each_layer: its
\* arguments, its local names and the stages it has applied so far
Runs == {1, 2}

NoRun ==
    [pc |-> "idle", method |-> "none", L |-> 0, inputs |-> EmptyMap, rxns |-> <<>>,
     graph |-> EmptyMap, feats |-> EmptyMap, g |-> 0, f |-> 0, layer_idx |-> 0,
     all_feats |-> EmptyMap, trail |-> <<>>, out |-> <<>>, err |-> "none"]

\* the training script before main() has run: no worker process, no file
NoWorker ==
    [pc |-> "none", epoch |-> 0, loss |-> "none", val_acc |-> 0, best |-> 0,
     is_best |-> FALSE, best_score |-> 0, counter |-> 0, code |-> "none"]

NoDriver ==
    [distributed |-> FALSE, workers |-> <<>>, val |-> <<>>, files |-> {}]

\* the featurizer's column, on the graph before any forward pass
GData0 == [nt \in NTypes |-> ("feat" :> FeatsOf(1)[nt])]

Init ==
    /\ gdev \in Devices
    /\ gdata = GData0
    /\ calls = [c \in Calls |-> NoCall]
    /\ sp = NoSplit
    /\ net = [k \in Runs |-> NoRun]
    /\ drv = NoDriver

\* mol_graph_to_rxn_graph(graph, feats, reactions) is entered
Enter(c, fm, order, rxns) ==
    /\ calls[c].pc = "idle"
    /\ calls' = [calls EXCEPT ![c] =
                    [NoCall EXCEPT !.pc = "to", !.feats = fm, !.ntypes = order,
                                   !.reactions = rxns]]
    /\ UNCHANGED <<gdev, gdata, sp, net, drv>>

\* graph = graph.to('cuda:0'): the graph itself when it is already there,
\* otherwise a clone with its own frames
graph_to(c) ==
    /\ calls[c].pc = "to"
    /\ calls' = [calls EXCEPT ![c].pc = "assign", ![c].j = 1,
                              ![c].graph = IF gdev = "cuda:0" THEN "self" ELSE "clone",
                              ![c].gcopy = IF gdev = "cuda:0" THEN EmptyMap ELSE gdata]
    /\ UNCHANGED <<gdev, gdata, sp, net, drv>>

\* variant: the rows are added to a column that is already on the frame
frame_update_add(data, nt, ft) ==
    IF "ft" \in DOMAIN data[nt] /\ Len(data[nt]["ft"]) = Len(ft)
    THEN [data EXCEPT ![nt]["ft"] =
             [r \in 1..Len(ft) |-> [j \in 1..FtDim |-> @[r][j] + ft[r][j]]]]
    ELSE [data EXCEPT ![nt] = ("ft" :> ft) @@ @]

\* data.update({"ft": ft}) on one node type's frame
frame_update(data, nt, ft) == [data EXCEPT ![nt] = ("ft" :> ft) @@ @]

\* one round of `for nt, ft in feats.items()`: the frame refuses a column
\* whose row count is not the number of nodes
assign_feats(c) ==
    /\ calls[c].pc = "assign"
    /\ LET nt == calls[c].ntypes[calls[c].j]
           ft == calls[c].feats[nt]
           last == calls[c].j = Len(calls[c].ntypes)
       IN IF Len(ft) # num_nodes(nt)
          THEN /\ Fail(c, "rows")
               /\ UNCHANGED <<gdev, gdata, sp, net, drv>>
          ELSE /\ IF calls[c].graph = "self"
                  THEN /\ gdata' = frame_update(gdata, nt, ft)
                       /\ calls' = [calls EXCEPT ![c].j = @ + 1,
                                       ![c].pc = IF last THEN "unbatch" ELSE @]
                  ELSE /\ gdata' = gdata
                       /\ calls' = [calls EXCEPT ![c].j = @ + 1,
                                       ![c].pc = IF last THEN "unbatch" ELSE @,
                                       ![c].gcopy = frame_update(@, nt, ft)]
               /\ UNCHANGED <<gdev, sp, net, drv>>

\* dgl.unbatch(graph): one graph per molecule, each with its slice of the data
unbatch(data) ==
    [m \in 1..Len(Mols) |->
        [num |-> Mols[m],
         ft |-> [nt \in NTypes |-> split(data[nt]["ft"], batch_num_nodes(nt))[m]]]]

unbatch_graph(c) ==
    /\ calls[c].pc = "unbatch"
    /\ calls' = [calls EXCEPT ![c].pc = "loop", ![c].i = 1, ![c].j = 0,
                              ![c].graphs = unbatch(GraphData(c))]
    /\ UNCHANGED <<gdev, gdata, sp, net, drv>>

\* ------------------------------------------------------- create_rxn_graph
\* [graphs[i] for i in idx]: a list index past the end raises IndexError
list_index_ok(graphs, idx) == \A n \in 1..Len(idx) : idx[n] < Len(graphs)

pick(graphs, idx) == [n \in 1..Len(idx) |-> graphs[idx[n] + 1]]

\* whether a molecule has bonds: always for a reactant, for a product when its
\* bond mapping is not empty
has_bonds_of(rxn) ==
    [reactants |-> [n \in 1..Len(rxn.reactants) |-> TRUE],
     products |-> [n \in 1..Len(rxn.bond_mapping) |-> Len(rxn.bond_mapping[n]) > 0]]

mappings_of(rxn) == [atom |-> rxn.atom_mapping_as_list, bond |-> rxn.bond_mapping_as_list]

\* variant: the check lets extra reactants through and the first one is used
arity_ok_first(reactants) == Len(reactants) >= 1

\* assert len(reactants) == 1
arity_ok(reactants) == Len(reactants) = 1

\* variant: the row of zeros is put before the product rows
products_bond_ft_front(products_ft, has_bonds) ==
    <<new_zeros(1)>> \o compress(products_ft, has_bonds.products)

\* variant: the row of zeros is added only when some product has no bond
products_bond_ft_ifmissing(products_ft, has_bonds) ==
    IF \E n \in 1..Len(has_bonds.products) : ~has_bonds.products[n]
    THEN Append(compress(products_ft, has_bonds.products), new_zeros(1))
    ELSE compress(products_ft, has_bonds.products)

\* the bond rows of the products: those of the products that have bonds,
\* then one row of zeros for the broken bond
products_bond_ft(products_ft, has_bonds) ==
    Append(compress(products_ft, has_bonds.products), new_zeros(1))

\* variant: a map shorter than the product rows is let through
aligned_atmost(products_ft, mapping) == Len(products_ft) >= Len(mapping)

\* assert len(products_ft) == len(mappings[nt])
aligned(products_ft, mapping) == Len(products_ft) = Len(mapping)

\* variant: the map is used as a scatter index, row i going to row mapping[i]
reorder_scatter(products_ft, mapping) ==
    [k \in 1..Len(mapping) |->
        IF \E i \in 1..Len(mapping) : mapping[i] = k - 1
        THEN products_ft[CHOOSE i \in 1..Len(mapping) : mapping[i] = k - 1]
        ELSE products_ft[k]]

\* products_ft[mappings[nt]]
reorder(products_ft, mapping) == index_select(products_ft, mapping)

\* one round of `for nt in ntypes`: [err, ft], ft the value stored in feats[nt]
type_ft(nt, reactants, products, mappings, has_bonds) ==
    LET reactants_list == [n \in 1..Len(reactants) |-> reactants[n].ft[nt]]
        products_all == [n \in 1..Len(products) |-> products[n].ft[nt]]
        products_list == IF nt = "bond"
                         THEN products_bond_ft(products_all, has_bonds)
                         ELSE products_all
        reactants_ft == cat(reactants_list)
        products_ft == cat(products_list)
    IN IF reactants_list = <<>> \/ products_list = <<>>
       THEN [err |-> "cat", ft |-> <<>>]
       ELSE IF nt = "global"
       THEN [err |-> "none", ft |-> sub(sum_keepdim(products_ft), sum_keepdim(reactants_ft))]
       ELSE IF ~aligned(products_ft, mappings[nt])
       THEN [err |-> "alignment", ft |-> <<>>]
       ELSE IF ~index_ok(products_ft, mappings[nt])
       THEN [err |-> "index", ft |-> <<>>]
       ELSE IF ~broadcastable(reorder(products_ft, mappings[nt]), reactants_ft)
       THEN [err |-> "broadcast", ft |-> <<>>]
       ELSE [err |-> "none", ft |-> sub(reorder(products_ft, mappings[nt]), reactants_ft)]

\* the reaction the loop of mol_graph_to_rxn_graph is at, and its graphs
CurRxn(c) == calls[c].reactions[calls[c].i]
CurReactants(c) == pick(calls[c].graphs, CurRxn(c).reactants)
CurProducts(c) == pick(calls[c].graphs, CurRxn(c).products)

\* `for rxn in reactions`: the graphs of the reaction are looked up and
\* create_rxn_graph is entered, up to its arity check
create_enter(c) ==
    /\ calls[c].pc = "loop"
    /\ calls[c].i <= Len(calls[c].reactions)
    /\ IF ~list_index_ok(calls[c].graphs, CurRxn(c).reactants)
          \/ ~list_index_ok(calls[c].graphs, CurRxn(c).products)
       THEN Fail(c, "index")
       ELSE IF ~arity_ok(CurReactants(c))
       THEN Fail(c, "arity")
       ELSE calls' = [calls EXCEPT ![c].pc = "types", ![c].j = 1, ![c].fts = EmptyMap]
    /\ UNCHANGED <<gdev, gdata, sp, net, drv>>

\* one node type of create_rxn_graph; after the last one the graph and the
\* features are returned and appended to the lists of the caller
create_type(c) ==
    /\ calls[c].pc = "types"
    /\ LET nt == calls[c].ntypes[calls[c].j]
           r == type_ft(nt, CurReactants(c), CurProducts(c), mappings_of(CurRxn(c)),
                        has_bonds_of(CurRxn(c)))
           fts == (nt :> r.ft) @@ calls[c].fts
       IN IF r.err # "none"
          THEN Fail(c, r.err)
          ELSE IF calls[c].j < Len(calls[c].ntypes)
          THEN calls' = [calls EXCEPT ![c].j = @ + 1, ![c].fts = fts]
          ELSE calls' = [calls EXCEPT ![c].pc = "loop", ![c].i = @ + 1, ![c].j = 0,
                            ![c].fts = EmptyMap,
                            ![c].reaction_graphs = Append(@, CurReactants(c)[1].num),
                            ![c].reaction_feats = Append(@, fts)]
    /\ UNCHANGED <<gdev, gdata, sp, net, drv>>

\* dgl.batch(reaction_graphs): the node counts of the graphs, in list order
dgl_batch(gs) == [nt \in NTypes |-> [n \in 1..Len(gs) |-> gs[n][nt]]]

\* variant: the blocks are joined last reaction first
cat_feats_reversed(reaction_feats) ==
    [nt \in NTypes |->
        cat([n \in 1..Len(reaction_feats) |->
                reaction_feats[Len(reaction_feats) + 1 - n][nt]])]

\* torch.cat([ft[nt] for ft in reaction_feats]) for every node type
cat_feats(reaction_feats) ==
    [nt \in NTypes |-> cat([n \in 1..Len(reaction_feats) |-> reaction_feats[n][nt]])]

\* the lists are batched and returned; batching an empty list raises
batch_rxn(c) ==
    /\ calls[c].pc = "loop"
    /\ calls[c].i > Len(calls[c].reactions)
    /\ IF calls[c].reaction_graphs = <<>>
       THEN Fail(c, "empty")
       ELSE calls' = [calls EXCEPT ![c].pc = "done",
                          ![c].batched_graph = dgl_batch(calls[c].reaction_graphs),
                          ![c].batched_feats = cat_feats(calls[c].reaction_feats)]
    /\ UNCHANGED <<gdev, gdata, sp, net, drv>>

\* the caller takes the result, or the exception, and the frame is gone
Return(c) ==
    /\ calls[c].pc \in {"done", "failed"}
    /\ calls' = [calls EXCEPT ![c] = NoCall]
    /\ UNCHANGED <<gdev, gdata, sp, net, drv>>

\* the steps of mol_graph_to_rxn_graph between its entry and its return
Build(c) ==
    \/ graph_to(c)
    \/ assign_feats(c)
    \/ unbatch_graph(c)
    \/ create_enter(c)
    \/ create_type(c)
    \/ batch_rxn(c)

Step(c) == Build(c) \/ Return(c)

\* One forward pass at a time, as the training and prediction loops run it.
Call ==
    /\ \A c \in Calls : calls[c].pc = "idle"
    /\ \E fm \in FeatMaps, order \in KeyOrders, rxns \in ReactionLists :
          Enter(1, fm, order, rxns)

Next == Call \/ Step(1)

Spec == Init /\ [][Next]_vars

\* Two forward passes on the same graph object, their steps interleaved.
ConcFeatMaps == {FeatsOf(s) : s \in Seeds}
ConcLists == { <<RxnBreak>>, <<RxnAtoms>> }

CallConc ==
    \E c \in Calls, fm \in ConcFeatMaps, rxns \in ConcLists :
        Enter(c, fm, <<"atom", "bond", "global">>, rxns)

NextConc == CallConc \/ \E c \in Calls : Step(c)

SpecConc == Init /\ [][NextConc]_vars

\* ------------------------------------------- _split_batched_output, alone
\* a tensor of n rows, each row its own value
Rows(n) == [r \in 1..n |-> [j \in 1..FtDim |-> 10 * r + j]]

\* a batched graph with the given bond node counts and a value to split
split_enter(nbonds, n) ==
    /\ sp.pc = "idle"
    /\ sp' = [NoSplit EXCEPT !.pc = "split", !.nbonds = nbonds, !.value = Rows(n)]
    /\ UNCHANGED <<gdev, gdata, calls, net, drv>>

\* torch.split(value, graph.batch_num_nodes("bond"))
split_batched_output ==
    /\ sp.pc = "split"
    /\ IF split_ok(sp.value, sp.nbonds)
       THEN sp' = [sp EXCEPT !.pc = "chunks", !.chunks = split(sp.value, sp.nbonds)]
       ELSE sp' = [sp EXCEPT !.pc = "failed"]
    /\ UNCHANGED <<gdev, gdata, calls, net, drv>>

\* torch.cat of the chunks, as the builder joins per-graph tensors
rejoin ==
    /\ sp.pc = "chunks"
    /\ IF sp.chunks = <<>>
       THEN sp' = [sp EXCEPT !.pc = "failed"]
       ELSE sp' = [sp EXCEPT !.pc = "joined", !.joined = cat(sp.chunks)]
    /\ UNCHANGED <<gdev, gdata, calls, net, drv>>

split_return ==
    /\ sp.pc \in {"joined", "failed"}
    /\ sp' = NoSplit
    /\ UNCHANGED <<gdev, gdata, calls, net, drv>>

SplitCall ==
    \E nbonds \in SeqsUpTo(0..MaxCount, MaxMols) :
        \E n \in {SumSeq(nbonds), SumSeq(nbonds) + 1} : split_enter(nbonds, n)

NextSplit == SplitCall \/ split_batched_output \/ rejoin \/ split_return

SpecSplit == Init /\ [][NextSplit]_vars

\* --------------------------------------------- the layers of the network
\* The feature update layers are pure functions of the graph structure and
\* the features; integer weights stand for the learned parameters.
MaxLayers == 2   \* most gated layers a network is built with

Methods == {"forward", "feature_before_fc", "feature_at_each_layer"}

\* the order in which the layers hand the node types on
feature_names == <<"atom", "bond", "global">>

EmbW(nt) == CASE nt = "atom" -> 2 [] nt = "bond" -> 3 [] OTHER -> 5

\* self.embedding(feats): a linear map on every row of every node type
embedding(feats) ==
    [nt \in NTypes |->
        [r \in 1..Len(feats[nt]) |-> [j \in 1..FtDim |-> EmbW(nt) * feats[nt][r][j] + j]]]

\* a layer can be applied when every node of the graph has its row
layer_ok(feats) == \A nt \in NTypes : Len(feats[nt]) = num_nodes(nt)

\* layer(graph, feats, norm_atom, norm_bond), the l-th gated layer: every
\* node adds the pooled rows of the other node types of its molecule
gated_layer(l, feats) ==
    LET chunks == [nt \in NTypes |-> split(feats[nt], batch_num_nodes(nt))]
        pooled == [nt \in NTypes |-> [m \in 1..Len(Mols) |-> sum_keepdim(chunks[nt][m])[1]]]
        msg(nt, m, j) ==
            CASE nt = "atom" -> pooled["bond"][m][j] + pooled["global"][m][j]
              [] nt = "bond" -> pooled["atom"][m][j] + pooled["global"][m][j]
              [] OTHER -> pooled["atom"][m][j] + pooled["bond"][m][j]
    IN [nt \in NTypes |->
          cat([m \in 1..Len(Mols) |->
                 [r \in 1..Len(chunks[nt][m]) |->
                     [j \in 1..FtDim |-> chunks[nt][m][r][j] + l * msg(nt, m, j)]]])]

\* the readout needs one row per node of the batched reaction graph
readout_ok(graph, feats) == \A nt \in NTypes : Len(feats[nt]) = SumSeq(graph[nt])

\* self.readout_layer(graph, feats): one row per reaction graph, the pooled
\* atom rows, the pooled bond rows and the global row side by side
readout_layer(graph, feats) ==
    LET chunks == [nt \in NTypes |-> split(feats[nt], graph[nt])]
    IN [n \in 1..Len(graph["global"]) |->
          sum_keepdim(chunks["atom"][n])[1] \o sum_keepdim(chunks["bond"][n])[1]
             \o sum_keepdim(chunks["global"][n])[1]]

\* self.fc_layers: hidden layers and the output layer of width one
fc_layers == <<"hidden", "out">>

RECURSIVE RowSum(_)
RowSum(row) == IF row = <<>> THEN 0 ELSE Head(row) + RowSum(Tail(row))

\* layer(feats) for one fully-connected layer
fc_layer(kind, feats) ==
    [n \in 1..Len(feats) |->
        IF kind = "out" THEN <<RowSum(feats[n])>>
        ELSE [j \in 1..Len(feats[n]) |-> 2 * feats[n][j] + j]]

\* -------------------- forward, feature_before_fc, feature_at_each_layer
\* variant: the trace keeps the chunks of the latest layer only
trace_store_latest(all_feats, layer_idx, fts) == (layer_idx :> fts)

\* all_feats[layer_idx] = fts
trace_store(all_feats, layer_idx, fts) == (layer_idx :> fts) @@ all_feats

\* _split_batched_output(graph, value) on the molecule graph
molecule_chunks(value) == split(value, batch_num_nodes("bond"))

\* variant: feature_before_fc leaves the gated layers out
after_nogated(method, stage) ==
    CASE stage = "embedding" ->
            IF method = "feature_before_fc" THEN "builder" ELSE "gated"
      [] stage = "gated" ->
            IF method = "feature_at_each_layer" THEN "returned" ELSE "builder"
      [] stage = "builder" -> "readout"
      [] stage = "readout" -> IF method = "forward" THEN "fc" ELSE "returned"
      [] OTHER -> "returned"

\* the stage that follows a stage in the body of a method
after(method, stage) ==
    CASE stage = "embedding" -> "gated"
      [] stage = "gated" ->
            IF method = "feature_at_each_layer" THEN "returned" ELSE "builder"
      [] stage = "builder" -> "readout"
      [] stage = "readout" -> IF method = "forward" THEN "fc" ELSE "returned"
      [] OTHER -> "returned"

NetFail(run, e) == [run EXCEPT !.pc = "failed", !.err = e]

\* the run moves on to a stage; an empty loop is passed over, and a method
\* that is through returns its features or its trace
RECURSIVE goto(_, _)
goto(run, stage) ==
    IF stage = "gated" /\ run.g >= run.L THEN goto(run, after(run.method, "gated"))
    ELSE IF stage = "fc" /\ run.f >= Len(fc_layers) THEN goto(run, after(run.method, "fc"))
    ELSE IF stage = "returned"
    THEN [run EXCEPT !.pc = "returned",
                     !.out = IF run.method = "feature_at_each_layer"
                             THEN run.all_feats ELSE run.feats]
    ELSE [run EXCEPT !.pc = stage]

\* feature_at_each_layer stores the bond features of each molecule after a
\* feature update; the other methods store nothing
store_bond_feats(run) ==
    IF run.method # "feature_at_each_layer" THEN run
    ELSE IF ~split_ok(run.feats["bond"], batch_num_nodes("bond")) THEN NetFail(run, "split")
    ELSE [run EXCEPT !.all_feats = trace_store(@, run.layer_idx,
                                               molecule_chunks(run.feats["bond"])),
                     !.layer_idx = @ + 1]

net_enter(k, method, L, fm, rxns) ==
    /\ net[k].pc = "idle"
    /\ net' = [net EXCEPT ![k] =
                  [NoRun EXCEPT !.pc = "embedding", !.method = method, !.L = L,
                                !.inputs = fm, !.feats = fm, !.rxns = rxns]]
    /\ UNCHANGED <<gdev, gdata, calls, sp, drv>>

\* feats = self.embedding(feats)
embed(k) ==
    /\ net[k].pc = "embedding"
    /\ LET run == store_bond_feats([net[k] EXCEPT !.feats = embedding(@),
                                                  !.trail = Append(@, "embedding")])
       IN net' = [net EXCEPT ![k] =
                     IF run.pc = "failed" THEN run
                     ELSE goto(run, after(run.method, "embedding"))]
    /\ UNCHANGED <<gdev, gdata, calls, sp, drv>>

\* one round of `for layer in self.gated_layers`
gated(k) ==
    /\ net[k].pc = "gated"
    /\ IF ~layer_ok(net[k].feats)
       THEN net' = [net EXCEPT ![k] = NetFail(@, "rows")]
       ELSE LET run == store_bond_feats([net[k] EXCEPT
                                            !.feats = gated_layer(net[k].g + 1, @),
                                            !.g = @ + 1,
                                            !.trail = Append(@, "gated")])
            IN net' = [net EXCEPT ![k] =
                          IF run.pc = "failed" THEN run ELSE goto(run, "gated")]
    /\ UNCHANGED <<gdev, gdata, calls, sp, drv>>

\* mol_graph_to_rxn_graph(graph, feats, reactions) is called
builder_call(k) ==
    /\ net[k].pc = "builder"
    /\ Enter(k, net[k].feats, feature_names, net[k].rxns)

\* graph, feats = ...: the call returns the reaction graph and its features,
\* or its exception goes on to the caller of the method
builder_return(k) ==
    /\ net[k].pc = "builder"
    /\ calls[k].pc \in {"done", "failed"}
    /\ net' = [net EXCEPT ![k] =
                  IF calls[k].pc = "failed" THEN NetFail(@, calls[k].err)
                  ELSE goto([@ EXCEPT !.graph = calls[k].batched_graph,
                                      !.feats = calls[k].batched_feats,
                                      !.trail = Append(@, "builder")],
                            after(@.method, "builder"))]
    /\ calls' = [calls EXCEPT ![k] = NoCall]
    /\ UNCHANGED <<gdev, gdata, sp, drv>>

\* feats = self.readout_layer(graph, feats)
readout(k) ==
    /\ net[k].pc = "readout"
    /\ net' = [net EXCEPT ![k] =
                  IF ~readout_ok(@.graph, @.feats) THEN NetFail(@, "rows")
                  ELSE goto([@ EXCEPT !.feats = readout_layer(net[k].graph, net[k].feats),
                                      !.trail = Append(@, "readout")],
                            after(@.method, "readout"))]
    /\ UNCHANGED <<gdev, gdata, calls, sp, drv>>

\* one round of `for layer in self.fc_layers`
fc(k) ==
    /\ net[k].pc = "fc"
    /\ net' = [net EXCEPT ![k] =
                  goto([@ EXCEPT !.feats = fc_layer(fc_layers[net[k].f + 1], net[k].feats),
                                 !.f = @ + 1,
                                 !.trail = Append(@, "fc")],
                       "fc")]
    /\ UNCHANGED <<gdev, gdata, calls, sp, drv>>

NetStep(k) ==
    \/ embed(k)
    \/ gated(k)
    \/ builder_call(k)
    \/ Build(k)
    \/ builder_return(k)
    \/ readout(k)
    \/ fc(k)

\* A method of the model is run on a batch, and then a method is run again
\* with the same parameters, the same graph object and the same arguments.
NetFeatMaps == FeatMaps
NetReactions == {RxnBreak, RxnAtoms, RxnSamePadded, RxnBadIndex}
NetLists == SeqsUpTo(NetReactions, MaxRxns)

Finished(k) == net[k].pc \in {"returned", "failed"}

NetCall ==
    /\ \A k \in Runs : net[k].pc = "idle"
    /\ \E method \in Methods, L \in 1..MaxLayers, fm \in NetFeatMaps, rxns \in NetLists :
          net_enter(1, method, L, fm, rxns)

NetAgain ==
    /\ Finished(1)
    /\ \E method \in Methods :
          net_enter(2, method, net[1].L, net[1].inputs, net[1].rxns)

NextNet == NetCall \/ NetAgain \/ \E k \in Runs : NetStep(k)

SpecNet == Init /\ [][NextNet]_vars

\* ------------------------------------------------ the training driver
MaxEpochs == 2    \* args.epochs of the runs followed
MaxWorkers == 2   \* most worker processes main() spawns
Patience == 1     \* epochs without improvement the stopper lets pass
FloatMax == 9     \* stands for np.finfo(np.float32).max, above every score

\* what train() can return as the loss of an epoch, what evaluate() returns
Losses == {"finite", "nan", "inf"}
ValAccs == {1, 2}

\* the ranks a worker can have, and those of the workers that were started
AllRanks == 0..(MaxWorkers - 1)
Ranks == DOMAIN drv.workers

Worker(r) == IF r \in Ranks THEN drv.workers[r] ELSE NoWorker

\* np.isnan(loss)
isnan(loss) == loss = "nan"

\* not args.distributed or (args.distributed and args.gpu == 0)
is_main(r) == ~drv.distributed \/ (drv.distributed /\ r = 0)

\* a file is written by a worker
written(files, name, r) == files \cup {[file |-> name, rank |-> r]}

\* stopper.step(score) of EarlyStopping: the first score is kept; a worse
\* score counts up and stops at the patience, a score as good resets
stopper_step(w, score) ==
    IF w.counter = 0 /\ w.best_score = 0
    THEN [w EXCEPT !.best_score = score]
    ELSE IF score > w.best_score
    THEN [w EXCEPT !.counter = @ + 1]
    ELSE [w EXCEPT !.best_score = score, !.counter = 0]

early_stop(w) == w.counter >= Patience

\* main(): one worker, or mp.spawn of a worker per device
main(distributed, n) ==
    /\ drv.workers = <<>>
    /\ drv' = [distributed |-> distributed,
               workers |-> [r \in 0..(n - 1) |->
                               [NoWorker EXCEPT !.pc = "init", !.best = FloatMax]],
               val |-> <<>>, files |-> {}]
    /\ UNCHANGED <<gdev, gdata, calls, sp, net>>

\* main_worker up to the split of the dataset
w_init(r) ==
    /\ Worker(r).pc = "init"
    /\ drv' = [drv EXCEPT !.workers[r].pc = "save_dataset"]
    /\ UNCHANGED <<gdev, gdata, calls, sp, net>>

\* torch.save(dataset.state_dict(), ...) under the guard
w_save_dataset(r) ==
    /\ Worker(r).pc = "save_dataset"
    /\ drv' = [drv EXCEPT !.workers[r].pc = "save_args",
                          !.files = IF is_main(r)
                                    THEN written(@, "dataset_state_dict", r) ELSE @]
    /\ UNCHANGED <<gdev, gdata, calls, sp, net>>

\* yaml_dump(args, "train_args.yaml") under the guard; model, optimizer,
\* scheduler and stopper are made
w_save_args(r) ==
    /\ Worker(r).pc = "save_args"
    /\ drv' = [drv EXCEPT !.workers[r].pc = "loop", !.workers[r].epoch = 0,
                          !.files = IF is_main(r)
                                    THEN written(@, "train_args", r) ELSE @]
    /\ UNCHANGED <<gdev, gdata, calls, sp, net>>

\* for epoch in range(args.start_epoch, args.epochs)
w_loop(r) ==
    /\ Worker(r).pc = "loop"
    /\ drv' = [drv EXCEPT !.workers[r].pc =
                              IF Worker(r).epoch < MaxEpochs THEN "train" ELSE "test"]
    /\ UNCHANGED <<gdev, gdata, calls, sp, net>>

\* a worker has entered train() of an epoch: the gradients of an epoch are
\* reduced over all workers of a distributed run
arrived(w, epoch) ==
    /\ w.pc \in {"train", "check", "evaluate", "stopper", "scheduler", "save", "loop"}
    /\ w.epoch > epoch \/ (w.epoch = epoch /\ w.pc # "loop")

\* loss, train_acc = train(...)
w_train(r, loss) ==
    /\ Worker(r).pc = "train"
    /\ \A q \in Ranks : arrived(Worker(q), Worker(r).epoch)
    /\ drv' = [drv EXCEPT !.workers[r].pc = "check", !.workers[r].loss = loss]
    /\ UNCHANGED <<gdev, gdata, calls, sp, net>>

\* if np.isnan(loss): sys.exit(1)
w_check(r) ==
    /\ Worker(r).pc = "check"
    /\ drv' = IF isnan(Worker(r).loss)
              THEN [drv EXCEPT !.workers[r].pc = "exited", !.workers[r].code = "1"]
              ELSE [drv EXCEPT !.workers[r].pc = "evaluate"]
    /\ UNCHANGED <<gdev, gdata, calls, sp, net>>

\* val_acc = evaluate(...): every worker scores the same model on the same
\* validation set
w_evaluate(r, score) ==
    /\ Worker(r).pc = "evaluate"
    /\ IF Len(drv.val) > Worker(r).epoch
       THEN drv' = [drv EXCEPT !.workers[r].pc = "stopper",
                               !.workers[r].val_acc = drv.val[Worker(r).epoch + 1]]
       ELSE drv' = [drv EXCEPT !.workers[r].pc = "stopper",
                               !.workers[r].val_acc = score,
                               !.val = Append(@, score)]
    /\ UNCHANGED <<gdev, gdata, calls, sp, net>>

\* if stopper.step(val_acc): pickle_dump(best, args.output_file); break
w_stopper(r) ==
    /\ Worker(r).pc = "stopper"
    /\ LET w == stopper_step(Worker(r), Worker(r).val_acc)
       IN IF early_stop(w)
          THEN drv' = [drv EXCEPT !.workers[r] = [w EXCEPT !.pc = "test"],
                                  !.files = written(@, "results", r)]
          ELSE drv' = [drv EXCEPT !.workers[r] = [w EXCEPT !.pc = "scheduler"]]
    /\ UNCHANGED <<gdev, gdata, calls, sp, net>>

\* scheduler.step(val_acc); is_best = val_acc < best; best = val_acc
w_scheduler(r) ==
    /\ Worker(r).pc = "scheduler"
    /\ drv' = [drv EXCEPT !.workers[r].pc = "save",
                          !.workers[r].is_best = Worker(r).val_acc < Worker(r).best,
                          !.workers[r].best = IF Worker(r).val_acc < @
                                              THEN Worker(r).val_acc ELSE @]
    /\ UNCHANGED <<gdev, gdata, calls, sp, net>>

\* save_checkpoints(...) under the guard, and on to the next epoch
w_save(r) ==
    /\ Worker(r).pc = "save"
    /\ drv' = [drv EXCEPT !.workers[r].pc = "loop", !.workers[r].epoch = @ + 1,
                          !.files = IF is_main(r) THEN written(@, "checkpoint", r) ELSE @]
    /\ UNCHANGED <<gdev, gdata, calls, sp, net>>

\* load_checkpoints(..., "best_checkpoint.pkl") raises when no checkpoint is
\* there yet; then the test accuracy and the end of the worker
w_test(r) ==
    /\ Worker(r).pc = "test"
    /\ drv' = [drv EXCEPT !.workers[r].pc = "exited",
                          !.workers[r].code =
                              IF \E f \in drv.files : f.file = "checkpoint"
                              THEN "0" ELSE "1"]
    /\ UNCHANGED <<gdev, gdata, calls, sp, net>>

\* mp.spawn ends the other workers when one of them exits with a failure
spawn_terminate ==
    /\ drv.distributed
    /\ \E r \in Ranks : Worker(r).pc = "exited" /\ Worker(r).code = "1"
    /\ \E r \in Ranks : Worker(r).pc # "exited"
    /\ drv' = [drv EXCEPT !.workers =
                  [r \in Ranks |->
                      IF Worker(r).pc = "exited" THEN Worker(r)
                      ELSE [Worker(r) EXCEPT !.pc = "exited", !.code = "killed"]]]
    /\ UNCHANGED <<gdev, gdata, calls, sp, net>>

main_worker(r) ==
    \/ w_init(r)
    \/ w_save_dataset(r)
    \/ w_save_args(r)
    \/ w_loop(r)
    \/ \E loss \in Losses : w_train(r, loss)
    \/ w_check(r)
    \/ \E score \in ValAccs : w_evaluate(r, score)
    \/ w_stopper(r)
    \/ w_scheduler(r)
    \/ w_save(r)
    \/ w_test(r)

Main ==
    \/ main(FALSE, 1)
    \/ \E n \in 1..MaxWorkers : main(TRUE, n)

NextTrain == Main \/ (\E r \in AllRanks : main_worker(r)) \/ spawn_terminate

SpecTrain == Init /\ [][NextTrain]_vars

\* ------------------------------------------------ what the claims speak of
\* Rows of the input feature map, addressed by molecule (0-based) and by the
\* row within the molecule (0-based), without going through unbatch.
Offset(nt, m) == SumSeq(SubSeq(batch_num_nodes(nt), 1, m))

InRow(fm, nt, m, l) == fm[nt][Offset(nt, m) + l + 1]

MapOf(rxn, nt) == IF nt = "atom" THEN rxn.atom_mapping_as_list ELSE rxn.bond_mapping_as_list

\* products of a reaction whose bond mapping is empty / is not
BondFree(rxn) == {n \in 1..Len(rxn.products) : Len(rxn.bond_mapping[n]) = 0}
Bonded(rxn) == {n \in 1..Len(rxn.products) : Len(rxn.bond_mapping[n]) > 0}

RECURSIVE SumOver(_, _)
SumOver(S, f) ==
    IF S = {} THEN 0 ELSE LET x == CHOOSE y \in S : TRUE IN f[x] + SumOver(S \ {x}, f)

\* rows of the product tensor the builder concatenates for a node type: all
\* product rows for atoms; for bonds the rows of the bonded products and the
\* one row of zeros
ProductRows(rxn, nt) ==
    IF nt = "atom"
    THEN SumOver(1..Len(rxn.products), [n \in 1..Len(rxn.products) |-> Mols[rxn.products[n] + 1].atom])
    ELSE SumOver(Bonded(rxn), [n \in 1..Len(rxn.products) |-> Mols[rxn.products[n] + 1].bond]) + 1

Mapped == {"atom", "bond"}

\* C1 (arity check): a reaction whose reactant list does not hold exactly one
\* entry makes the builder fail on entering create_rxn_graph, with the arity
\* error and before any feature of that reaction is computed; the loop never
\* gets past it and no graph or feature is returned for it.
C1_ArityCheck ==
    \A c \in Calls : \A n \in 1..Len(calls[c].reactions) :
        Len(calls[c].reactions[n].reactants) # 1 =>
            /\ calls[c].i <= n
            /\ Len(calls[c].reaction_feats) < n
            /\ Len(calls[c].reaction_graphs) < n
            /\ calls[c].pc # "done"
            /\ calls[c].i = n =>
                  /\ calls[c].pc \in {"loop", "failed"}
                  /\ DOMAIN calls[c].fts = {}
                  /\ calls[c].pc = "failed" => calls[c].err = "arity"

\* a second reaction with two reactants has failed the arity check
C1_Witness ==
    \E c \in Calls :
        /\ calls[c].pc = "failed" /\ calls[c].err = "arity"
        /\ calls[c].i = 2 /\ Len(calls[c].reaction_feats) = 1
        /\ Len(calls[c].reactions[2].reactants) = 2

\* C2 (alignment violation): for atom and bond, a correspondence map whose
\* length differs from the row count of the concatenated product features
\* makes the builder fail at the alignment check; no feature of that type is
\* ever computed, kept or returned from a truncated or padded map.
C2_AlignmentViolation ==
    \A c \in Calls :
        /\ \A n \in 1..Len(calls[c].reaction_feats) : \A nt \in Mapped :
              Len(MapOf(calls[c].reactions[n], nt)) = ProductRows(calls[c].reactions[n], nt)
        /\ \A nt \in DOMAIN calls[c].fts \cap Mapped :
              Len(MapOf(CurRxn(c), nt)) = ProductRows(CurRxn(c), nt)
        /\ ( /\ calls[c].pc = "failed"
             /\ calls[c].i \in 1..Len(calls[c].reactions)
             /\ calls[c].j >= 1
             /\ calls[c].ntypes[calls[c].j] \in Mapped
             /\ Len(MapOf(CurRxn(c), calls[c].ntypes[calls[c].j]))
                    # ProductRows(CurRxn(c), calls[c].ntypes[calls[c].j]) )
           => calls[c].err = "alignment"

\* the builder has failed at a bond map one shorter than the product bond rows
C2_Witness ==
    \E c \in Calls :
        /\ calls[c].pc = "failed" /\ calls[c].err = "alignment"
        /\ calls[c].ntypes[calls[c].j] = "bond"
        /\ Len(CurRxn(c).bond_mapping_as_list) < ProductRows(CurRxn(c), "bond")

\* the feature map of the call has as many rows as the graph has nodes
FeatsOk(c) == \A nt \in NTypes : Len(calls[c].feats[nt]) = num_nodes(nt)

IsPerm(map, n) == Len(map) = n /\ {map[x] : x \in 1..Len(map)} = 0..(n - 1)

\* one reactant, one bond mapping per product, and maps that are
\* permutations of the product rows, as many as the reactant has rows
WellFormed(rxn) ==
    /\ Len(rxn.reactants) = 1
    /\ Len(rxn.bond_mapping) = Len(rxn.products)
    /\ \A nt \in Mapped :
          /\ ProductRows(rxn, nt) = Mols[rxn.reactants[1] + 1][nt]
          /\ IsPerm(MapOf(rxn, nt), ProductRows(rxn, nt))

Neg(row) == [j \in 1..FtDim |-> 0 - row[j]]

\* C3 (bond padding): for a well-formed reaction with exactly one bond-free
\* product the builder does not fail, and the bond feature row at the position
\* of the broken bond (the reactant bond mapped to the appended row) is the
\* zero vector minus the reactant's feature row of that bond.
C3_BondPadding ==
    \A c \in Calls : \A n \in 1..Len(calls[c].reactions) :
        LET rxn == calls[c].reactions[n]
        IN (WellFormed(rxn) /\ Cardinality(BondFree(rxn)) = 1) =>
              /\ ~(calls[c].pc = "failed" /\ calls[c].i = n)
              /\ n <= Len(calls[c].reaction_feats) =>
                    /\ Len(calls[c].reaction_feats[n]["bond"]) = Mols[rxn.reactants[1] + 1].bond
                    /\ \A b \in 1..Len(rxn.bond_mapping_as_list) :
                          rxn.bond_mapping_as_list[b] = ProductRows(rxn, "bond") - 1 =>
                              calls[c].reaction_feats[n]["bond"][b]
                                  = Neg(InRow(calls[c].feats, "bond", rxn.reactants[1], b - 1))

\* a reaction with one bond-free product, listed first, has been built, and
\* the row of its broken bond is not zero
C3_Witness ==
    \E c \in Calls :
        /\ calls[c].pc = "done"
        /\ WellFormed(calls[c].reactions[1])
        /\ BondFree(calls[c].reactions[1]) = {1}
        /\ \E b \in 1..Len(calls[c].reactions[1].bond_mapping_as_list) :
              /\ calls[c].reactions[1].bond_mapping_as_list[b]
                    = ProductRows(calls[c].reactions[1], "bond") - 1
              /\ calls[c].reaction_feats[1]["bond"][b] # [j \in 1..FtDim |-> 0]

AllZero(t) == \A r \in 1..Len(t) : t[r] = [j \in 1..FtDim |-> 0]

IdentityOver(map, n) == map = [x \in 1..n |-> x - 1]

\* one reactant and one product of the same node counts and the same rows
\* in the feature map, with identity maps over the reactant's rows
ZeroLawCase(c, n) ==
    LET rxn == calls[c].reactions[n]
    IN /\ FeatsOk(c)
       /\ Len(rxn.reactants) = 1 /\ Len(rxn.products) = 1 /\ Len(rxn.bond_mapping) = 1
       /\ Mols[rxn.reactants[1] + 1] = Mols[rxn.products[1] + 1]
       /\ \A nt \in NTypes : \A l \in 0..(Mols[rxn.reactants[1] + 1][nt] - 1) :
             InRow(calls[c].feats, nt, rxn.reactants[1], l)
                 = InRow(calls[c].feats, nt, rxn.products[1], l)
       /\ \A nt \in Mapped : IdentityOver(MapOf(rxn, nt), Mols[rxn.reactants[1] + 1][nt])

\* C4 as stated (zero law): in the zero-law case the builder returns the
\* all-zero feature for every node type.
C4_ZeroLawAsStated ==
    \A c \in Calls : \A n \in 1..Len(calls[c].reactions) :
        ZeroLawCase(c, n) =>
            /\ ~(calls[c].pc = "failed" /\ calls[c].i = n)
            /\ n <= Len(calls[c].reaction_feats) =>
                  \A nt \in NTypes : AllZero(calls[c].reaction_feats[n][nt])

\* C4 (zero law, amended): in the zero-law case with a product that has
\* bonds, the atom and global features the builder computes are all zero,
\* the bond type fails the alignment check (the product bond rows carry the
\* extra row of zeros, one more than the identity map), and no feature is
\* returned for the reaction.
C4_ZeroLawAmended ==
    \A c \in Calls : \A n \in 1..Len(calls[c].reactions) :
        (ZeroLawCase(c, n) /\ Len(calls[c].reactions[n].bond_mapping[1]) > 0) =>
            /\ calls[c].i <= n
            /\ Len(calls[c].reaction_feats) < n
            /\ calls[c].pc # "done"
            /\ calls[c].i = n =>
                  /\ \A nt \in DOMAIN calls[c].fts :
                        nt # "bond" /\ AllZero(calls[c].fts[nt])
                  /\ calls[c].pc = "failed" =>
                        /\ calls[c].err = "alignment"
                        /\ calls[c].ntypes[calls[c].j] = "bond"

\* the zero-law reaction has failed at the bond type after its atom feature
\* was computed
C4_Witness ==
    \E c \in Calls :
        /\ calls[c].pc = "failed" /\ calls[c].err = "alignment"
        /\ calls[c].i \in 1..Len(calls[c].reactions)
        /\ ZeroLawCase(c, calls[c].i)
        /\ Len(CurRxn(c).bond_mapping[1]) > 0
        /\ "atom" \in DOMAIN calls[c].fts

\* (sum of the two products' global rows) - (the reactant's global row)
ExpectedGlobal(fm, rxn) ==
    << [j \in 1..FtDim |->
           InRow(fm, "global", rxn.products[1], 0)[j]
           + InRow(fm, "global", rxn.products[2], 0)[j]
           - InRow(fm, "global", rxn.reactants[1], 0)[j]] >>

\* C5 (global pooling): for a reaction with two products the global feature
\* is the single row (sum of both products' global rows) minus (the
\* reactant's global row), whatever the correspondence maps are: it is
\* computed so even when a map is malformed, and the global type never fails.
C5_GlobalPooling ==
    \A c \in Calls :
        /\ \A n \in 1..Len(calls[c].reaction_feats) :
              Len(calls[c].reactions[n].products) = 2 =>
                  calls[c].reaction_feats[n]["global"]
                      = ExpectedGlobal(calls[c].feats, calls[c].reactions[n])
        /\ ( /\ calls[c].i \in 1..Len(calls[c].reactions)
             /\ "global" \in DOMAIN calls[c].fts
             /\ Len(CurRxn(c).products) = 2 )
           => calls[c].fts["global"] = ExpectedGlobal(calls[c].feats, CurRxn(c))
        /\ ( /\ calls[c].pc = "failed"
             /\ calls[c].i \in 1..Len(calls[c].reactions)
             /\ calls[c].j >= 1
             /\ Len(CurRxn(c).products) = 2 )
           => calls[c].ntypes[calls[c].j] # "global"

\* the global feature of a two-product reaction with a malformed atom map
\* has been computed
C5_Witness ==
    \E c \in Calls :
        /\ calls[c].i \in 1..Len(calls[c].reactions)
        /\ "global" \in DOMAIN calls[c].fts
        /\ Len(CurRxn(c).products) = 2
        /\ Len(CurRxn(c).atom_mapping_as_list) # ProductRows(CurRxn(c), "atom")

\* (sum of the products' global rows) - (the reactant's global row)
ExpectedGlobalN(fm, rxn) ==
    [j \in 1..FtDim |->
        SumOver(1..Len(rxn.products),
                [n \in 1..Len(rxn.products) |-> InRow(fm, "global", rxn.products[n], 0)[j]])
        - InRow(fm, "global", rxn.reactants[1], 0)[j]]

\* rows of the batched feature tensor before the block of reaction k
BlockOff(c, nt, k) ==
    SumSeq([n \in 1..(k - 1) |-> Len(calls[c].reaction_feats[n][nt])])

\* C6 (output order): the batched reaction graph of a list of N reactions
\* holds N graphs, graph k with the node counts of reaction k's reactant, and
\* for every node type the batched tensor is the per-reaction blocks in list
\* order; block k belongs to reaction k of the input list (its global row is
\* the global feature of that reaction).
C6_OutputOrder ==
    \A c \in Calls :
        calls[c].pc = "done" =>
            LET N == Len(calls[c].reactions)
            IN /\ Len(calls[c].reaction_feats) = N
               /\ \A nt \in NTypes :
                     /\ Len(calls[c].batched_graph[nt]) = N
                     /\ \A k \in 1..N :
                           calls[c].batched_graph[nt][k]
                               = Mols[calls[c].reactions[k].reactants[1] + 1][nt]
                     /\ Len(calls[c].batched_feats[nt]) = BlockOff(c, nt, N + 1)
                     /\ \A k \in 1..N : \A r \in 1..Len(calls[c].reaction_feats[k][nt]) :
                           calls[c].batched_feats[nt][BlockOff(c, nt, k) + r]
                               = calls[c].reaction_feats[k][nt][r]
               /\ Len(calls[c].batched_feats["global"]) = N
               /\ \A k \in 1..N :
                     calls[c].batched_feats["global"][k]
                         = ExpectedGlobalN(calls[c].feats, calls[c].reactions[k])

\* two reactions with different reactants have been batched
C6_Witness ==
    \E c \in Calls :
        /\ calls[c].pc = "done"
        /\ Len(calls[c].reactions) = 2
        /\ calls[c].reactions[1].reactants # calls[c].reactions[2].reactants
        /\ calls[c].batched_feats["global"][1] # calls[c].batched_feats["global"][2]

\* C7 as stated (no feature leak): with no builder call in progress, the
\* node data stored on the caller's graph object is what it was before the
\* first call.
C7_NoFeatureLeak ==
    (\A c \in Calls : calls[c].pc = "idle") => gdata = GData0

\* C8 as stated (concurrent scoping): a call's unbatched graphs hold the rows
\* of the feature map passed to that call, and the global feature it returns
\* for a reaction is computed from that map.
C8_OwnFeatureMap ==
    \A c \in Calls :
        /\ calls[c].graphs # <<>> =>
              \A m \in 1..Len(Mols) : \A nt \in NTypes :
                 \A l \in 1..Mols[m][nt] :
                    calls[c].graphs[m].ft[nt][l] = InRow(calls[c].feats, nt, m - 1, l - 1)
        /\ \A n \in 1..Len(calls[c].reaction_feats) :
              calls[c].reaction_feats[n]["global"]
                  = <<ExpectedGlobalN(calls[c].feats, calls[c].reactions[n])>>

\* bond rows of the reactant that no product supplies
MissingBondRows(rxn) ==
    Mols[rxn.reactants[1] + 1].bond
    - SumOver(Bonded(rxn), [n \in 1..Len(rxn.products) |-> Mols[rxn.products[n] + 1].bond])

\* C9 as stated (degenerate-molecule miscount): a reaction in which more than
\* one product lacks a bond of the reactant, with more than one bond row
\* missing, is detected and never has features returned for it.
C9_MiscountDetected ==
    \A c \in Calls : \A n \in 1..Len(calls[c].reactions) :
        LET rxn == calls[c].reactions[n]
        IN ( /\ Len(rxn.reactants) = 1
             /\ Len(rxn.bond_mapping) = Len(rxn.products)
             /\ Cardinality(BondFree(rxn)) > 1
             /\ MissingBondRows(rxn) > 1 )
           => Len(calls[c].reaction_feats) < n

\* rows of the split value before chunk m
ChunkOff(m) == SumSeq(SubSeq(sp.nbonds, 1, m - 1))

\* C10 (split/join inverse): splitting a tensor by node counts c_1..c_k that
\* add up to its row count yields k chunks, chunk j holding the c_j rows that
\* follow the rows of the chunks before it, and concatenating the chunks in
\* order gives the tensor back row for row; the split fails only when the
\* counts do not add up to the row count.
C10_SplitJoinInverse ==
    /\ sp.pc \in {"chunks", "joined"} =>
          /\ Len(sp.chunks) = Len(sp.nbonds)
          /\ \A m \in 1..Len(sp.nbonds) :
                /\ Len(sp.chunks[m]) = sp.nbonds[m]
                /\ \A l \in 1..sp.nbonds[m] : sp.chunks[m][l] = sp.value[ChunkOff(m) + l]
    /\ sp.pc = "joined" => sp.joined = sp.value
    /\ (sp.pc = "failed" /\ sp.nbonds # <<>>) => SumSeq(sp.nbonds) # Len(sp.value)

\* three chunks, one of them empty, have been split and joined again
C10_Witness ==
    /\ sp.pc = "joined"
    /\ sp.nbonds = <<2, 0, 1>>
    /\ Len(sp.joined) = 3

\* C11 (layer-trace shape): a run of feature_at_each_layer on a model with L
\* gated layers holds, once embedding and g of the layers are applied, exactly
\* the entries 0..g, and returns exactly the 1 + L entries 0..L; entry 0 is
\* the bond tensor after embedding and the latest entry the bond tensor after
\* the latest layer, and every entry is a sequence of one chunk per molecule
\* of the batch, chunk m holding as many rows as molecule m has bond nodes.
C11_LayerTraceShape ==
    \A k \in Runs :
        (net[k].method = "feature_at_each_layer" /\ net[k].pc \in {"gated", "returned"}) =>
            /\ DOMAIN net[k].all_feats = 0..net[k].g
            /\ net[k].pc = "returned" =>
                  /\ net[k].g = net[k].L
                  /\ net[k].out = net[k].all_feats
                  /\ Cardinality(DOMAIN net[k].out) = 1 + net[k].L
            /\ \A i \in DOMAIN net[k].all_feats :
                  /\ Len(net[k].all_feats[i]) = Len(Mols)
                  /\ \A m \in 1..Len(Mols) : Len(net[k].all_feats[i][m]) = Mols[m].bond
            /\ cat(net[k].all_feats[0]) = embedding(net[k].inputs)["bond"]
            /\ cat(net[k].all_feats[net[k].g]) = net[k].feats["bond"]

\* a trace of a model with two gated layers has been returned
C11_Witness ==
    \E k \in Runs :
        /\ net[k].method = "feature_at_each_layer"
        /\ net[k].pc = "returned"
        /\ net[k].L = 2
        /\ DOMAIN net[k].out = {0, 1, 2}

\* C12 as stated (non-finite loss abort): a worker whose training loss of the
\* epoch is NaN or infinite is stopped by the check that follows train(): with
\* such a loss it is found only at the check or ended with a failure exit,
\* never evaluating, stepping the stopper or the scheduler, updating `best`
\* or saving a checkpoint.
C12_NonFiniteLossAborts ==
    \A r \in Ranks :
        Worker(r).loss \in {"nan", "inf"} =>
            \/ Worker(r).pc = "check"
            \/ Worker(r).pc = "exited" /\ Worker(r).code # "0"

\* the stages a method that returned has applied, in order
Times(n, x) == [i \in 1..n |-> x]

PrefixTrail(L) == <<"embedding">> \o Times(L, "gated") \o <<"builder", "readout">>

ForwardTrail(L) == PrefixTrail(L) \o Times(Len(fc_layers), "fc")

\* every fully-connected layer, in order, applied to a tensor
RECURSIVE FcFrom(_, _)
FcFrom(n, feats) ==
    IF n > Len(fc_layers) THEN feats ELSE FcFrom(n + 1, fc_layer(fc_layers[n], feats))

\* C13 (diagnostic prefix equivalence): a forward that returns has applied
\* embedding, every gated layer, the builder, readout and every
\* fully-connected layer in this order, a feature_before_fc that returns the
\* same stages up to and including readout; run one after the other on the
\* same inputs, in either order, the two return or fail together, with the
\* same error, and forward's result is the fully-connected layers applied to
\* the result of feature_before_fc.
C13_PrefixEquivalence ==
    /\ \A k \in Runs :
          net[k].pc = "returned" =>
              /\ net[k].method = "forward" => net[k].trail = ForwardTrail(net[k].L)
              /\ net[k].method = "feature_before_fc" => net[k].trail = PrefixTrail(net[k].L)
    /\ \A k \in Runs, q \in Runs :
          ( /\ net[k].method = "forward" /\ Finished(k)
            /\ net[q].method = "feature_before_fc" /\ Finished(q) ) =>
              /\ net[k].pc = net[q].pc
              /\ net[k].err = net[q].err
              /\ net[k].pc = "returned" => net[k].out = FcFrom(1, net[q].out)

\* forward and then feature_before_fc have returned for two reactions, on a
\* graph object the first of them wrote to
C13_Witness ==
    /\ net[1].method = "forward" /\ net[1].pc = "returned"
    /\ net[2].method = "feature_before_fc" /\ net[2].pc = "returned"
    /\ net[1].L = 2
    /\ Len(net[1].rxns) = 2
    /\ Len(net[2].out) = 2
    /\ gdev = "cuda:0"

\* C14 (determinism): two forward passes of the same model on the same input
\* graph, feature map and reaction list end alike: both return the same
\* output or both fail with the same error, also when the second pass works
\* on the graph object the first pass has written its features to.
C14_Determinism ==
    ( /\ net[1].method = "forward" /\ Finished(1)
      /\ net[2].method = "forward" /\ Finished(2) ) =>
        /\ net[1].pc = net[2].pc
        /\ net[1].err = net[2].err
        /\ net[1].out = net[2].out

\* the second of two forward passes has returned on a graph object that
\* carried the first pass's features when it began
C14_Witness ==
    /\ net[1].method = "forward" /\ net[1].pc = "returned"
    /\ net[2].method = "forward" /\ net[2].pc = "returned"
    /\ gdev = "cuda:0"
    /\ "ft" \in DOMAIN gdata["bond"]
    /\ Len(net[2].out) = 2
    /\ net[2].out = net[1].out

\* rows of molecule m (0-based) in the input feature map
MolRows(fm, nt, m) == [l \in 1..Mols[m + 1][nt] |-> InRow(fm, nt, m, l - 1)]

\* P: the products' rows in product-list order; for bonds without the rows of
\* the products whose bond map is empty and with one row of zeros at the end
ProductTensor(fm, rxn, nt) ==
    IF nt = "atom"
    THEN cat([n \in 1..Len(rxn.products) |-> MolRows(fm, "atom", rxn.products[n])])
    ELSE cat([n \in 1..Len(rxn.products) |->
                 IF Len(rxn.bond_mapping[n]) = 0 THEN <<>>
                 ELSE MolRows(fm, "bond", rxn.products[n])])
         \o <<[j \in 1..FtDim |-> 0]>>

RowDiff(a, b) == [j \in 1..FtDim |-> a[j] - b[j]]

Min(a, b) == IF a < b THEN a ELSE b

\* C15 (reorder semantics): for every reaction the builder has computed
\* features for and the node types atom and bond, with P the product tensor,
\* R the reactant's rows and `mapping` the map of the type, row i of the
\* reaction feature is P[mapping[i]] - R[i] for every i that is an entry of
\* the map and a row of the reactant: the map is a gather index into P.  When
\* the map is as long as the reactant's rows these are all rows of the feature.
C15_ReorderSemantics ==
    \A c \in Calls : \A n \in 1..Len(calls[c].reaction_feats) : \A nt \in Mapped :
        LET rxn == calls[c].reactions[n]
            fm == calls[c].feats
            P == ProductTensor(fm, rxn, nt)
            R == MolRows(fm, nt, rxn.reactants[1])
            mapping == MapOf(rxn, nt)
            ft == calls[c].reaction_feats[n][nt]
        IN /\ Len(ft) >= Min(Len(mapping), Len(R))
           /\ Len(mapping) = Len(R) => Len(ft) = Len(R)
           /\ \A i \in 0..(Min(Len(mapping), Len(R)) - 1) :
                 ft[i + 1] = RowDiff(P[mapping[i + 1] + 1], R[i + 1])

\* features of A-B-C -> A-B + C are there, computed from rows that all
\* differ, with an atom map that takes row 0 from the last product row
C15_Witness ==
    \E c \in Calls :
        /\ Len(calls[c].reaction_feats) >= 1
        /\ calls[c].reactions[1] = RxnBreak
        /\ calls[c].feats = FeatsOf(1)
        /\ calls[c].reaction_feats[1]["atom"][1]
              = RowDiff(InRow(FeatsOf(1), "atom", 3, 0), InRow(FeatsOf(1), "atom", 0, 0))
        /\ calls[c].reaction_feats[1]["atom"][1]
              # RowDiff(InRow(FeatsOf(1), "atom", 1, 0), InRow(FeatsOf(1), "atom", 0, 0))

\* C16 as stated (row-count alignment of the reaction graph): for every
\* reaction the builder has computed features for and every node type, the
\* feature has as many rows as the reactant graph has nodes of the type, and
\* the maps of the reaction are as long as the reactant's rows (none is let
\* through by row broadcasting); the batched features returned have as many
\* rows as the batched reaction graph has nodes of the type.
C16_RowCountAlignment ==
    \A c \in Calls :
        /\ \A n \in 1..Len(calls[c].reaction_feats) :
              /\ \A nt \in NTypes :
                    Len(calls[c].reaction_feats[n][nt]) = calls[c].reaction_graphs[n][nt]
              /\ \A nt \in Mapped :
                    Len(MapOf(calls[c].reactions[n], nt)) = calls[c].reaction_graphs[n][nt]
        /\ calls[c].pc = "done" =>
              \A nt \in NTypes :
                  Len(calls[c].batched_feats[nt]) = SumSeq(calls[c].batched_graph[nt])

\* C17 as stated (single writer in distributed training): in a distributed
\* run every file that has been written (dataset state dict, train_args.yaml,
\* checkpoint, early-stopping results file) was written by the worker of
\* rank 0; no other worker has written a file.
C17_SingleWriter ==
    drv.distributed => \A f \in drv.files : f.rank = 0

====
